---- MODULE Spec2Model ----
(***************************************************************************)
(* Model of the agent registry / recommender (src/tools/agent_registry.py) *)
(* and of the planning workflow chain (src/workflows/planning_workflow.py).*)
(*                                                                         *)
(* Text is modelled as a sequence of tokens: an f-string is the sequence   *)
(* of its literal pieces and interpolated values, and += is \o.            *)
(* Python's None is the string "None" where a field is Optional.           *)
(***************************************************************************)
EXTENDS Integers, Sequences, FiniteSets, TLC

VARIABLES
    AGENT_CARDS,     \* self.AGENT_CARDS: insertion-ordered dict, a sequence of <<key, card>>
    passed,          \* history: the AgentCard most recently passed to add_*_agent_card, per id
    stored_by,       \* history: the method that most recently stored a card under the id
    DEFAULT_DOMAIN,  \* the environment variable read by __init__
    adds,            \* number of add_*_agent_card calls made after construction
    req,             \* one record per request task: arguments, locals, position, result
    wf,              \* one record per workflow run: input, stage status, messages in flight
    policy,          \* one record per PolicySearchTool instance (work-env and MCP policy server)
    uploaded_queries,\* agui_server.uploaded_queries: dict filename -> queries, a sequence of <<key, value>>
    uploads,         \* history: filename -> queries of each successful upload not deleted since
    http,            \* one record per HTTP request handled by the AG-UI server
    safe,            \* one record per /workflow_safe request: parsed fields and the SSE events yielded
    exec             \* one record per A2A executor: request context, position, event queue

vars == <<AGENT_CARDS, passed, stored_by, DEFAULT_DOMAIN, adds, req, wf,
          policy, uploaded_queries, uploads, http, safe, exec>>
registryVars == <<AGENT_CARDS, passed, stored_by, DEFAULT_DOMAIN, adds, req>>
workflowVars == <<wf>>
policyVars == <<policy>>
serverVars == <<uploaded_queries, uploads, http, safe>>
executorVars == <<exec>>
extVars == <<policy, uploaded_queries, uploads, http, safe, exec>>

----------------------------------------------------------------------------
(* Bounds *)

\* add_*_agent_card calls after construction
MaxAdds == 1
\* how often the workflow engine may start one stage before the model stops it
MaxStageRuns == 2

----------------------------------------------------------------------------
(* Python helpers *)

\* str.strip() on a sequence of characters
RECURSIVE LStrip(_)
LStrip(s) == IF s # <<>> /\ Head(s) = " " THEN LStrip(Tail(s)) ELSE s

RECURSIVE RStrip(_)
RStrip(s) ==
    IF s # <<>> /\ s[Len(s)] = " " THEN RStrip(SubSeq(s, 1, Len(s) - 1)) ELSE s

Strip(s) == RStrip(LStrip(s))

\* dict: insertion-ordered sequence of <<key, value>> pairs with unique keys
Keys(d) == {d[i][1] : i \in 1..Len(d)}

Has(d, k) == k \in Keys(d)

IndexOf(d, k) == CHOOSE i \in 1..Len(d) : d[i][1] = k

Get(d, k) == d[IndexOf(d, k)][2]

\* a plausible slip: setdefault semantics, the first value under a key is kept
Put_KeepFirst(d, k, v) ==
    IF Has(d, k) THEN d ELSE Append(d, <<k, v>>)

\* d[k] = v
Put(d, k, v) ==
    IF Has(d, k) THEN [d EXCEPT ![IndexOf(d, k)] = <<k, v>>] ELSE Append(d, <<k, v>>)

\* list(d.keys())
KeyList(d) == [i \in 1..Len(d) |-> d[i][1]]

\* the elements of a list
Range(s) == {s[i] : i \in 1..Len(s)}

----------------------------------------------------------------------------
(* Agent cards *)

Skill(name, description, examples) ==
    [name |-> name, description |-> description, examples |-> examples]

intranet_agent_card(url) ==
    [name |-> "Intranet News Agent",
     description |-> "A company intranet agent that provides news and information",
     url |-> url,
     skills |-> <<
        Skill("List and browse office locations", "office_locations_skill",
              <<"What office locations does the company have?">>),
        Skill("Get news for office locations", "office_news_skill",
              <<"What is the latest news from the St. Louis office?">>),
        Skill("List company departments", "departments_skill",
              <<"What departments does the company have?">>),
        Skill("Get news for departments", "department_news_skill",
              <<"What is the latest news from the Engineering department?">>) >>]

work_env_agent_card(url) ==
    [name |-> "Work Environment Agent",
     description |-> "A work environment question answering agent",
     url |-> url,
     skills |-> <<
        Skill("Answer questions about vacation and leave policies", "vacation_days_skill",
              <<"How many vacation days do I get if I work from Germany?">>),
        Skill("Answer questions about performance and career development",
              "performance_evaluation_skill",
              <<"How often are performance evaluations conducted?">>),
        Skill("Answer questions about compensation and benefits", "payment_benefits_skill",
              <<"When do employees receive their salary?">>),
        Skill("Answer questions about HR policies and workplace guidelines", "hr_policy_skill",
              <<"What is the company's working hour policy?">>) >>]

hello_world_agent_card ==
    [name |-> "Hello World Foundry Agent",
     description |-> "A friendly Hello World agent",
     url |-> <<>>,
     skills |-> <<
        Skill("Greet users with personalized messages", "greeting_skill",
              <<"Say hello to me", "Greet me with a friendly message">>),
        Skill("Introduce itself and explain capabilities", "introduction_skill",
              <<"Who are you?">>),
        Skill("Start friendly conversations", "conversation_starter_skill",
              <<"How are you today?">>) >>]

\* example_text of one skill: "{example}  \n" per example
RECURSIVE ExampleText(_)
ExampleText(examples) ==
    IF examples = <<>> THEN <<>>
    ELSE <<Head(examples), "  \n">> \o ExampleText(Tail(examples))

\* skill_text: "{skill.name}: {skill.description}, examples: {skill.examples}  \n" per skill
RECURSIVE SkillText(_)
SkillText(skills) ==
    IF skills = <<>> THEN <<>>
    ELSE <<Head(skills).name, ": ", Head(skills).description, ", examples: ", "[">>
         \o Head(skills).examples \o <<"]", "  \n">> \o SkillText(Tail(skills))

\* example_text over all skills, in skill order
RECURSIVE AllExampleText(_)
AllExampleText(skills) ==
    IF skills = <<>> THEN <<>>
    ELSE ExampleText(Head(skills).examples) \o AllExampleText(Tail(skills))

AgentRepositoryCard(agent_id, is_foundry_agent, is_a2a_agent, agent_card) ==
    [agent_id |-> agent_id,
     is_foundry_agent |-> is_foundry_agent,
     is_a2a_agent |-> is_a2a_agent,
     name |-> agent_card.name,
     url |-> agent_card.url,
     description |-> agent_card.description,
     skills |-> SkillText(agent_card.skills),
     examples |-> AllExampleText(agent_card.skills)]

\* a plausible slip: the A2A flag left set on a foundry card
add_foundry_agent_card_BothFlags(cards, agent_id, agent_card) ==
    Put(cards, agent_id, AgentRepositoryCard(agent_id, TRUE, TRUE, agent_card))

\* the dict after add_foundry_agent_card(agent_id, agent_card)
add_foundry_agent_card(cards, agent_id, agent_card) ==
    Put(cards, agent_id, AgentRepositoryCard(agent_id, TRUE, FALSE, agent_card))

\* the dict after add_a2a_agent_card(agent_id, agent_card)
add_a2a_agent_card(cards, agent_id, agent_card) ==
    Put(cards, agent_id, AgentRepositoryCard(agent_id, FALSE, TRUE, agent_card))

\* a plausible slip: the test made on the value before .strip()
intranet_agent_url_Untrimmed(domain) ==
    IF domain # <<>> THEN <<"https://intranet-agent.">> \o Strip(domain)
    ELSE <<"http://localhost:8081">>

\* __init__: the two A2A urls chosen from DEFAULT_DOMAIN
intranet_agent_url(domain) ==
    IF Strip(domain) # <<>> THEN <<"https://intranet-agent.">> \o Strip(domain)
    ELSE <<"http://localhost:8081">>

get_work_env_agent_url(domain) ==
    IF Strip(domain) # <<>> THEN <<"https://work-env-agent.">> \o Strip(domain)
    ELSE <<"http://localhost:8080">>

\* __init__: self.AGENT_CARDS after construction
Construct(domain) ==
    add_foundry_agent_card(
        add_a2a_agent_card(
            add_a2a_agent_card(<<>>, "intranet_agent",
                               intranet_agent_card(intranet_agent_url(domain))),
            "work_env_agent", work_env_agent_card(get_work_env_agent_url(domain))),
        "hello-world-agent", hello_world_agent_card)

\* get_all_agents: one line per card, in dict order
RECURSIVE get_all_agents(_)
get_all_agents(cards) ==
    IF cards = <<>> THEN <<>>
    ELSE <<"Agent ID: ", Head(cards)[1], ", Name: ", Head(cards)[2].name,
           ", Description: ", Head(cards)[2].description, ", Skills: ">>
         \o Head(cards)[2].skills \o <<", Examples: ">>
         \o Head(cards)[2].examples \o <<"\n">>
         \o get_all_agents(Tail(cards))

----------------------------------------------------------------------------
(* Inputs *)

\* the request tasks sharing the one module-level registry
Requests == {"r1", "r2"}

\* values of DEFAULT_DOMAIN: blank, and set with padding
Domains == {<<" ">>, <<" ", "d", " ">>}

\* values of AZURE_AI_PROJECT_ENDPOINT: unset (default ""), blank, set
ProjectEndpoints == {<<>>, <<" ">>, <<"e">>}

\* agent_id arguments: an A2A agent, the foundry agent, an id __init__ does not register
AgentIdArgs == {"intranet_agent", "hello-world-agent", "new_agent"}

Queries == {"q1", "q2"}

\* str(exc) of the exceptions an external call or a constructor can raise
ErrorMessages == {"timed out", "connection refused"}

\* responses of the hosted agent (openai_client.responses.create)
HostedResponses == {"hosted response"}

\* responses of agent.run on the A2A path: .value is None, empty or set
A2AResponses ==
    {[value |-> v, text |-> "a2a response"] : v \in {"None", "", "a2a value"}}

\* ids and cards add_*_agent_card is called with after construction
AddIds == {"intranet_agent", "new_agent"}

AddCards ==
    {[name |-> "Custom Agent", description |-> "A custom agent",
      url |-> <<"http://custom">>,
      skills |-> <<Skill("Custom skill", "custom_skill", <<"Do the custom thing">>)>>]}

----------------------------------------------------------------------------
(* Request tasks *)

IdleRequest ==
    [op |-> "none", pc |-> "idle", agent_id |-> "None", query |-> "None",
     card |-> <<>>,                 \* agent_repository_card, once bound
     project_endpoint |-> <<>>,     \* project_endpoint, once read and stripped
     available_agent_ids |-> <<>>,  \* available_agent_ids, once built
     outstanding |-> {},            \* external calls issued and not yet completed
     log |-> <<>>,                  \* history: <<event, call>> in program order
     exc |-> <<>>,                  \* history: the exception raised, if any
     response |-> <<>>,             \* response.value of the model call, once it completed
     result |-> <<>>,               \* what the call returned or raised, once it has
     tool_result |-> <<>>]          \* what the workflow tool wrapper returned, once it has

QueryExecutionResult(id, query, content, score, is_error) ==
    [kind |-> "QueryExecutionResult", id |-> id, query |-> query,
     content |-> content, score |-> score, is_error |-> is_error]

\* a call is issued and awaited
IssueCall(q, call, waitpc) ==
    [q EXCEPT !.pc = waitpc,
              !.outstanding = @ \cup {call},
              !.log = Append(@, <<"issue", call>>)]

\* an awaited call completes normally
CompleteCall(q, call, nextpc) ==
    [q EXCEPT !.pc = nextpc,
              !.outstanding = @ \ {call},
              !.log = Append(@, <<"ok", call>>)]

\* a constructor or other local step runs to completion
LocalStep(q, call, nextpc) ==
    [q EXCEPT !.pc = nextpc, !.log = Append(@, <<"step", call>>)]

\* the except clause of a tool wrapper: a one-element list holding an 'error' entry
ToolError(tool, message) ==
    [kind |-> "list", error |-> <<tool, ": ", message>>]

\* a plausible slip: the wrapper has no except clause, so the exception propagates
execute_agent_query_Unguarded(outcome) ==
    CASE outcome.kind = "QueryExecutionResult" -> [outcome EXCEPT !.kind = "dict"]
      [] outcome.kind = "None" ->
            [kind |-> "raise", exc |-> "asdict() should be called on dataclass instances"]
      [] OTHER -> outcome

\* execute_agent_query: asdict(result) of what execute_agent returned, or the error list
execute_agent_query(outcome) ==
    CASE outcome.kind = "QueryExecutionResult" -> [outcome EXCEPT !.kind = "dict"]
      [] outcome.kind = "None" ->
            ToolError("execute_agent_query",
                      "asdict() should be called on dataclass instances")
      [] OTHER -> ToolError("execute_agent_query", outcome.exc)

\* generate_agent_query: model_dump() of the recommendation, or the error list
generate_agent_query(outcome) ==
    CASE outcome.kind = "AgentQueryExample" -> [outcome EXCEPT !.kind = "dict"]
      [] OTHER -> ToolError("generate_agent_query", outcome.exc)

\* what the tool wrapper around the registry call returns, if the call has one
ToolResult(op, outcome) ==
    CASE op = "execute_agent" -> <<execute_agent_query(outcome)>>
      [] op = "generate_agent_recommendation" -> <<generate_agent_query(outcome)>>
      [] OTHER -> <<>>

\* return value: the function returns, and with it the tool wrapper that awaited it
Return(q, value) ==
    [q EXCEPT !.pc = "returned",
              !.result = <<value>>,
              !.tool_result = ToolResult(q.op, value),
              !.log = Append(@, <<"return", value.kind>>)]

\* a plausible slip: the handler reports a generic text instead of str(exc)
ExceptHandler_GenericMessage(q, exc) ==
    QueryExecutionResult(q.agent_id, q.query,
                         <<"Error executing agent '", q.agent_id, "'">>, "None", TRUE)

\* execute_agent's except clause: the error-flagged result built from the exception
ExceptHandler(q, exc) ==
    QueryExecutionResult(q.agent_id, q.query, <<exc>>, "None", TRUE)

\* a plausible slip: the handler retries the invocation instead of returning
ExecuteRaise_Retry(q, call, exc) ==
    [q EXCEPT !.outstanding = @ \ {call},
              !.log = Append(@, <<"raise", call>>),
              !.exc = <<exc>>,
              !.pc = "execute_agent"]

\* `call` raises exc inside execute_agent's try block
ExecuteRaise(q, call, exc) ==
    LET r == [q EXCEPT !.outstanding = @ \ {call},
                       !.log = Append(@, <<"raise", call>>),
                       !.exc = <<exc>>]
    IN  Return(r, ExceptHandler(r, exc))

\* a plausible slip: the not-found result is built without is_error=True
ExecuteNotFound_Unflagged(q) ==
    QueryExecutionResult(q.agent_id, q.query,
                         <<"Agent '", q.agent_id, "' not found in registry">>,
                         "None", FALSE)

\* the result returned when agent_id is not in self.AGENT_CARDS
ExecuteNotFound(q) ==
    QueryExecutionResult(q.agent_id, q.query,
                         <<"Agent '", q.agent_id, "' not found in registry">>,
                         "None", TRUE)

\* the entry of execute_agent up to the first await or blocking call
ExecuteLookupStep(cards, q, endpoint) ==
    IF ~Has(cards, q.agent_id)
    THEN Return(q, ExecuteNotFound(q))
    ELSE LET card == Get(cards, q.agent_id)
             bound == [q EXCEPT !.card = <<card>>]
             read == [bound EXCEPT !.project_endpoint = Strip(endpoint)]
         IN  IF card.is_foundry_agent /\ Strip(endpoint) = <<>>
             THEN [read EXCEPT !.pc = "foundry_client"]
             ELSE LET q2 == IF card.is_foundry_agent THEN read ELSE bound
                  IN  IF card.is_a2a_agent
                      THEN [q2 EXCEPT !.pc = "a2a_resolve"]
                      ELSE Return(q2, [kind |-> "None"])

CallExecuteAgent(r, agent_id, query) ==
    /\ req[r].pc = "idle"
    /\ req' = [req EXCEPT ![r] = [IdleRequest EXCEPT !.op = "execute_agent",
                                                     !.pc = "execute_agent",
                                                     !.agent_id = agent_id,
                                                     !.query = query]]
    /\ UNCHANGED <<AGENT_CARDS, passed, stored_by, DEFAULT_DOMAIN, adds, workflowVars, extVars>>

\* a plausible slip: a miss stores a placeholder card under the unknown id
ExecuteLookup_Caching(r) ==
    /\ req[r].pc = "execute_agent"
    /\ \E endpoint \in ProjectEndpoints :
          req' = [req EXCEPT ![r] = ExecuteLookupStep(AGENT_CARDS, req[r], endpoint)]
    /\ AGENT_CARDS' =
          IF Has(AGENT_CARDS, req[r].agent_id) THEN AGENT_CARDS
          ELSE add_a2a_agent_card(AGENT_CARDS, req[r].agent_id,
                                  [name |-> "unknown", description |-> "unknown",
                                   url |-> <<>>, skills |-> <<>>])
    /\ UNCHANGED <<passed, stored_by, DEFAULT_DOMAIN, adds, workflowVars, extVars>>

\* the lookup and the choice of the execution path
ExecuteLookup(r) ==
    /\ req[r].pc = "execute_agent"
    /\ \E endpoint \in ProjectEndpoints :
          req' = [req EXCEPT ![r] = ExecuteLookupStep(AGENT_CARDS, req[r], endpoint)]
    /\ UNCHANGED <<AGENT_CARDS, passed, stored_by, DEFAULT_DOMAIN, adds, workflowVars, extVars>>

\* a step of execute_agent that only touches the request's own locals
ExecuteStep(r, next) ==
    /\ req' = [req EXCEPT ![r] = next]
    /\ UNCHANGED <<AGENT_CARDS, passed, stored_by, DEFAULT_DOMAIN, adds, workflowVars, extVars>>

\* DefaultAzureCredential() and AIProjectClient(endpoint, credential)
FoundryClient(r) ==
    /\ req[r].pc = "foundry_client"
    /\ \/ ExecuteStep(r, LocalStep(req[r], "AIProjectClient", "foundry_get"))
       \/ \E exc \in ErrorMessages :
             ExecuteStep(r, ExecuteRaise(req[r], "AIProjectClient", exc))

\* project_client.agents.get(agent_name)
FoundryGetIssue(r) ==
    /\ req[r].pc = "foundry_get"
    /\ ExecuteStep(r, IssueCall(req[r], "agents.get", "foundry_get_wait"))

FoundryGetDone(r) ==
    /\ req[r].pc = "foundry_get_wait"
    /\ \/ ExecuteStep(r, CompleteCall(req[r], "agents.get", "foundry_openai"))
       \/ \E exc \in ErrorMessages :
             ExecuteStep(r, ExecuteRaise(req[r], "agents.get", exc))

\* project_client.get_openai_client()
FoundryOpenAI(r) ==
    /\ req[r].pc = "foundry_openai"
    /\ \/ ExecuteStep(r, LocalStep(req[r], "get_openai_client", "foundry_create"))
       \/ \E exc \in ErrorMessages :
             ExecuteStep(r, ExecuteRaise(req[r], "get_openai_client", exc))

\* openai_client.responses.create(...) and the result built from it
FoundryCreateIssue(r) ==
    /\ req[r].pc = "foundry_create"
    /\ ExecuteStep(r, IssueCall(req[r], "responses.create", "foundry_create_wait"))

\* a plausible slip: the success result is built without score=1.0
FoundryResult_NoScore(q, response) ==
    QueryExecutionResult(q.agent_id, q.query, <<"str", response>>, "None", FALSE)

FoundryResult(q, response) ==
    QueryExecutionResult(q.agent_id, q.query, <<"str", response>>, "1.0", FALSE)

FoundryCreateDone(r) ==
    /\ req[r].pc = "foundry_create_wait"
    /\ \/ \E response \in HostedResponses :
             LET done == CompleteCall(req[r], "responses.create", "foundry_result")
             IN  ExecuteStep(r, Return(done, FoundryResult(done, response)))
       \/ \E exc \in ErrorMessages :
             ExecuteStep(r, ExecuteRaise(req[r], "responses.create", exc))

\* await resolver.get_agent_card()
A2AResolveIssue(r) ==
    /\ req[r].pc = "a2a_resolve"
    /\ ExecuteStep(r, IssueCall(req[r], "get_agent_card", "a2a_resolve_wait"))

\* a plausible slip: a failed resolution is swallowed and the query forwarded anyway
A2AResolveDone_IgnoreFailure(r) ==
    /\ req[r].pc = "a2a_resolve_wait"
    /\ \/ ExecuteStep(r, CompleteCall(req[r], "get_agent_card", "a2a_agent"))
       \/ ExecuteStep(r, [req[r] EXCEPT !.pc = "a2a_agent",
                                        !.outstanding = @ \ {"get_agent_card"},
                                        !.log = Append(@, <<"raise", "get_agent_card">>)])

A2AResolveDone(r) ==
    /\ req[r].pc = "a2a_resolve_wait"
    /\ \/ ExecuteStep(r, CompleteCall(req[r], "get_agent_card", "a2a_agent"))
       \/ \E exc \in ErrorMessages :
             ExecuteStep(r, ExecuteRaise(req[r], "get_agent_card", exc))

\* A2AAgent(name, description, agent_card, url)
A2AConstruct(r) ==
    /\ req[r].pc = "a2a_agent"
    /\ \/ ExecuteStep(r, LocalStep(req[r], "A2AAgent", "a2a_run"))
       \/ \E exc \in ErrorMessages :
             ExecuteStep(r, ExecuteRaise(req[r], "A2AAgent", exc))

\* await agent.run(query) and the result built from it
A2ARunIssue(r) ==
    /\ req[r].pc = "a2a_run"
    /\ ExecuteStep(r, IssueCall(req[r], "agent.run", "a2a_run_wait"))

\* str(response.value) if response.value else str(response)
response_content(response) ==
    IF response.value \notin {"None", ""} THEN <<"str", response.value>>
    ELSE <<"str", response.text>>

\* a plausible slip: the query is kept in an attribute of the shared tool object, so
\* the result echoes the query of whichever other request wrote it last
A2AResult_SharedQuery(q, response) ==
    LET others == {o \in Requests : req[o].pc # "idle" /\ req[o].query # q.query}
        query == IF others = {} THEN q.query ELSE req[CHOOSE o \in others : TRUE].query
    IN  QueryExecutionResult(q.agent_id, query, response_content(response), "1.0", FALSE)

A2AResult(q, response) ==
    QueryExecutionResult(q.agent_id, q.query, response_content(response), "1.0", FALSE)

A2ARunDone(r) ==
    /\ req[r].pc = "a2a_run_wait"
    /\ \/ \E response \in A2AResponses :
             LET done == CompleteCall(req[r], "agent.run", "a2a_result")
             IN  ExecuteStep(r, Return(done, A2AResult(done, response)))
       \/ \E exc \in ErrorMessages :
             ExecuteStep(r, ExecuteRaise(req[r], "agent.run", exc))

----------------------------------------------------------------------------
(* Registration after construction, and get_all_agents *)

AddA2AAgentCard(agent_id, agent_card) ==
    /\ adds < MaxAdds
    /\ AGENT_CARDS' = add_a2a_agent_card(AGENT_CARDS, agent_id, agent_card)
    /\ passed' = [passed EXCEPT ![agent_id] = <<agent_card>>]
    /\ stored_by' = [stored_by EXCEPT ![agent_id] = "add_a2a_agent_card"]
    /\ adds' = adds + 1
    /\ UNCHANGED <<DEFAULT_DOMAIN, req, workflowVars, extVars>>

AddFoundryAgentCard(agent_id, agent_card) ==
    /\ adds < MaxAdds
    /\ AGENT_CARDS' = add_foundry_agent_card(AGENT_CARDS, agent_id, agent_card)
    /\ passed' = [passed EXCEPT ![agent_id] = <<agent_card>>]
    /\ stored_by' = [stored_by EXCEPT ![agent_id] = "add_foundry_agent_card"]
    /\ adds' = adds + 1
    /\ UNCHANGED <<DEFAULT_DOMAIN, req, workflowVars, extVars>>

GetAllAgents(r) ==
    /\ req[r].pc = "idle"
    /\ req' = [req EXCEPT ![r] =
                 Return([IdleRequest EXCEPT !.op = "get_all_agents"],
                        [kind |-> "str", content |-> get_all_agents(AGENT_CARDS)])]
    /\ UNCHANGED <<AGENT_CARDS, passed, stored_by, DEFAULT_DOMAIN, adds, workflowVars, extVars>>

----------------------------------------------------------------------------
(* generate_agent_recommendation *)

\* agent ids the model may put into its structured record: registered at
\* construction, registered only by a later add call, never registered
ModelAgentIds == {"intranet_agent", "new_agent", "invented_agent"}

\* structured records (AgentQueryExample) the model call may yield
ModelRecords ==
    {[kind |-> "AgentQueryExample", agent_id |-> a, query |-> "query for the agent",
      description |-> "why this agent", intent |-> "intent",
      category |-> cs[1], complexity |-> "low", score |-> cs[2]] :
        a \in ModelAgentIds, cs \in {<<"None", "None">>, <<"hr", "0.9">>}}

\* the except clause of generate_agent_recommendation: log and re-raise
RecommendRaise(q, call, exc) ==
    LET r == [q EXCEPT !.outstanding = @ \ {call},
                       !.log = Append(@, <<"raise", call>>),
                       !.exc = <<exc>>]
    IN  Return(r, [kind |-> "raise", exc |-> exc])

\* a plausible slip: the prompt lists a fixed set of ids, not the registry's keys
available_agent_ids_Static(cards) ==
    <<"intranet_agent", "work_env_agent", "hello-world-agent", "new_agent">>

\* available_agent_ids = list(self.AGENT_CARDS.keys())
available_agent_ids(cards) == KeyList(cards)

\* a plausible slip: the record is normalised before it is returned
RecommendValue_Normalised(value) ==
    [value EXCEPT !.score = IF @ = "None" THEN "None" ELSE "1.0"]

\* what generate_agent_recommendation returns for a structured response.value
RecommendValue(value) == value

\* the statements after the awaited model call
RecommendFinish(q, value) ==
    LET done == [CompleteCall(q, "recommender.run", "recommend_result")
                    EXCEPT !.response = <<value>>]
    IN  IF value.kind # "None"
        THEN Return(done, RecommendValue(value))
        ELSE \* agent_query_info was never bound
             RecommendRaise(done, "return agent_query_info", "UnboundLocalError")

CallGenerateAgentRecommendation(r, query) ==
    /\ req[r].pc = "idle"
    /\ req' = [req EXCEPT ![r] =
                 [IdleRequest EXCEPT !.op = "generate_agent_recommendation",
                                     !.pc = "generate_agent_recommendation",
                                     !.query = query]]
    /\ UNCHANGED <<AGENT_CARDS, passed, stored_by, DEFAULT_DOMAIN, adds, workflowVars, extVars>>

\* create_chat_client(...)
RecommendClient(r) ==
    /\ req[r].pc = "generate_agent_recommendation"
    /\ \/ ExecuteStep(r, LocalStep(req[r], "create_chat_client", "recommend_prompt"))
       \/ \E exc \in ErrorMessages :
             ExecuteStep(r, RecommendRaise(req[r], "create_chat_client", exc))

\* the prompt is built from the registry and recommender.run is awaited
RecommendRunIssue(r) ==
    /\ req[r].pc = "recommend_prompt"
    /\ ExecuteStep(r, IssueCall(
            [req[r] EXCEPT !.available_agent_ids = available_agent_ids(AGENT_CARDS)],
            "recommender.run", "recommend_wait"))

RecommendRunDone(r) ==
    /\ req[r].pc = "recommend_wait"
    /\ \/ \E value \in ModelRecords \cup {[kind |-> "None"]} :
             ExecuteStep(r, RecommendFinish(req[r], value))
       \/ \E exc \in ErrorMessages :
             ExecuteStep(r, RecommendRaise(req[r], "recommender.run", exc))

----------------------------------------------------------------------------
(* The planning workflow *)

Stages == {"Moderator", "Planner", "Executor", "Summarizer"}

\* .set_start_executor(moderator)
start_executor == "Moderator"

\* a plausible slip: a review edge from Executor back to Planner
edges_WithLoop ==
    {<<"Moderator", "Planner">>, <<"Planner", "Executor">>,
     <<"Executor", "Summarizer">>, <<"Executor", "Planner">>}

\* .add_edge(moderator, planner).add_edge(planner, executor_agent)
\* .add_edge(executor_agent, summarizer)
edges ==
    {<<"Moderator", "Planner">>, <<"Planner", "Executor">>, <<"Executor", "Summarizer">>}

Successors(s) == {t \in Stages : <<s, t>> \in edges}

\* the workflow runs served concurrently
WorkflowRuns == {"w1", "w2"}

IdleRun ==
    [input |-> <<>>,                         \* the user message of the run
     status |-> "idle",                      \* idle, running, completed, failed
     stage |-> [s \in Stages |-> "idle"],    \* idle, running, done, failed
     inbox |-> [s \in Stages |-> 0],         \* messages delivered and not yet consumed
     runs |-> [s \in Stages |-> 0],          \* how often the stage has started
     order |-> <<>>]                         \* history: stages in the order they started

\* the input message is delivered to the start executor
RunWorkflow(w, query) ==
    /\ wf[w].status = "idle"
    /\ wf' = [wf EXCEPT ![w] = [IdleRun EXCEPT !.input = <<query>>,
                                               !.status = "running",
                                               !.inbox[start_executor] = 1]]
    /\ UNCHANGED <<registryVars, extVars>>

\* a stage consumes a delivered message and starts its agent
StageStart(w, s) ==
    /\ wf[w].status = "running"
    /\ wf[w].inbox[s] > 0
    /\ wf[w].stage[s] # "running"
    /\ wf[w].runs[s] < MaxStageRuns
    /\ wf' = [wf EXCEPT ![w].inbox[s] = @ - 1,
                        ![w].stage[s] = "running",
                        ![w].runs[s] = @ + 1,
                        ![w].order = Append(@, s)]
    /\ UNCHANGED <<registryVars, extVars>>

\* the stage's agent produced its output: it is sent along every outgoing edge
StageComplete(w, s) ==
    /\ wf[w].status = "running"
    /\ wf[w].stage[s] = "running"
    /\ wf' = [wf EXCEPT ![w].stage[s] = "done",
                        ![w].inbox = [t \in Stages |->
                                        IF t \in Successors(s) THEN @[t] + 1 ELSE @[t]]]
    /\ UNCHANGED <<registryVars, extVars>>

\* the stage's agent raised: the run fails
StageFail(w, s) ==
    /\ wf[w].status = "running"
    /\ wf[w].stage[s] = "running"
    /\ wf' = [wf EXCEPT ![w].stage[s] = "failed", ![w].status = "failed"]
    /\ UNCHANGED <<registryVars, extVars>>

\* no stage is running and no message is in flight: the run is complete
WorkflowComplete(w) ==
    /\ wf[w].status = "running"
    /\ \A s \in Stages : wf[w].stage[s] # "running" /\ wf[w].inbox[s] = 0
    /\ wf' = [wf EXCEPT ![w].status = "completed"]
    /\ UNCHANGED <<registryVars, extVars>>

----------------------------------------------------------------------------
(* PolicySearchTool: src/work_env_agent/policy_search_tool.py ("work_env") *)
(* and src/mcp-server/06-policy-server/policy_search_tool.py ("mcp")       *)

notPolicy == <<registryVars, workflowVars, serverVars, executorVars>>

PolicyTools == {"work_env", "mcp"}

\* documents one search may yield before the model ends the iteration
MaxHits == 2

\* AZURE_AI_SEARCH_ENDPOINT as os.getenv returns it
SearchEndpoints == {"None", "", "https://search"}
PolicyQueries == {"vacation"}
\* the category argument: None, "" and a string holding a quote
Categories == {<<>>, << <<>> >>, << <<"o", "'", "k">> >>}
PolicyErrors == {"service unavailable"}

\* documents the index may yield: every selected key present, and none present
Hits ==
    { [id |-> <<"7">>, content |-> <<"text">>, description |-> <<"d">>,
       intent |-> <<"i">>, category |-> <<"hr-policies">>, complexity |-> <<"low">>,
       search_score |-> <<"0.5">>],
      [id |-> <<>>, content |-> <<>>, description |-> <<>>, intent |-> <<>>,
       category |-> <<>>, complexity |-> <<>>, search_score |-> <<>>] }

\* dict.get(key, default) on a document whose absent keys are <<>>
DictGet(d, key, default) == IF d[key] = <<>> THEN default ELSE d[key][1]

QueryExample(result) ==
    [id |-> DictGet(result, "id", ""),
     content |-> DictGet(result, "content", ""),
     description |-> DictGet(result, "description", ""),
     intent |-> DictGet(result, "intent", ""),
     category |-> DictGet(result, "category", "None"),
     complexity |-> DictGet(result, "complexity", "None"),
     score |-> DictGet(result, "search_score", "None")]

\* category.replace("'", "''")
RECURSIVE safe_category(_)
safe_category(category) ==
    IF category = <<>> THEN <<>>
    ELSE (IF Head(category) = "'" THEN <<"'", "'">> ELSE <<Head(category)>>)
         \o safe_category(Tail(category))

\* search_kwargs["filter"]: only the MCP variant passes one, and only for a truthy category
search_filter(t, category) ==
    IF t = "mcp" /\ category # <<>> /\ category[1] # <<>>
    THEN << <<"category eq '">> \o safe_category(category[1]) \o <<"'">> >>
    ELSE <<>>

_build_search_client(SEARCH_ENDPOINT, constructed) ==
    IF SEARCH_ENDPOINT \in {"None", ""} THEN <<>>
    ELSE IF constructed THEN <<"SearchClient">> ELSE <<>>

IdlePolicy ==
    [pc |-> "unbuilt", search_client |-> <<>>, openai_client |-> <<>>,
     query |-> "None", category |-> <<>>, filter |-> <<>>, log |-> <<>>,
     examples |-> <<>>, exc |-> <<>>, result |-> <<>>]

\* __init__: the work-env variant always holds a SearchClient once constructed
PolicyInit(t, SEARCH_ENDPOINT, constructed) ==
    /\ policy[t].pc = "unbuilt"
    /\ t = "work_env" => SEARCH_ENDPOINT = "https://search" /\ constructed
    /\ policy' = [policy EXCEPT ![t].pc = "idle",
                     ![t].search_client =
                         IF t = "mcp" THEN _build_search_client(SEARCH_ENDPOINT, constructed)
                         ELSE <<"SearchClient">>]
    /\ UNCHANGED notPolicy

PolicyExcept_Reraise(p, exc) ==
    [p EXCEPT !.pc = "returned", !.exc = <<exc>>, !.result = <<[kind |-> "raise", items |-> <<>>]>>]

\* except Exception as exc: logger.error(...); return []
PolicyExcept(p, exc) ==
    [p EXCEPT !.pc = "returned", !.exc = <<exc>>, !.result = <<[kind |-> "list", items |-> <<>>]>>]

SearchClientUnavailable_Unchecked(t, p) == FALSE

\* if not self.search_client: return []   (MCP variant only)
SearchClientUnavailable(t, p) == t = "mcp" /\ p.search_client = <<>>

PolicyRun(t, query, category) ==
    /\ policy[t].pc = "idle"
    /\ LET p == [policy[t] EXCEPT !.query = query, !.category = category, !.filter = <<>>,
                                  !.log = <<>>, !.examples = <<>>, !.exc = <<>>,
                                  !.result = <<>>]
       IN policy' = [policy EXCEPT ![t] =
              IF SearchClientUnavailable(t, p)
              THEN [p EXCEPT !.pc = "returned", !.result = <<[kind |-> "list", items |-> <<>>]>>]
              ELSE [p EXCEPT !.pc = "get_openai_client"]]
    /\ UNCHANGED notPolicy

\* get_openai_client(): the module-global client is built once and then reused
PolicyGetOpenAIClient(t, built) ==
    /\ policy[t].pc = "get_openai_client"
    /\ policy[t].openai_client # <<>> => built
    /\ policy' = [policy EXCEPT ![t] =
          IF built THEN [@ EXCEPT !.pc = "embed", !.openai_client = <<"AzureOpenAI">>]
          ELSE PolicyExcept(@, "credential unavailable")]
    /\ UNCHANGED notPolicy

\* openai_client.embeddings.create(...).data[0].embedding
PolicyEmbed(t, outcome) ==
    /\ policy[t].pc = "embed"
    /\ LET p == [policy[t] EXCEPT !.log = Append(@, "embeddings.create")]
       IN policy' = [policy EXCEPT ![t] =
              CASE outcome = "ok" -> [p EXCEPT !.pc = "search"]
                [] outcome = "no data" -> PolicyExcept(p, "list index out of range")
                [] OTHER -> PolicyExcept(p, outcome)]
    /\ UNCHANGED notPolicy

\* self.search_client.search(...)
PolicySearch(t, outcome) ==
    /\ policy[t].pc = "search"
    /\ policy' = [policy EXCEPT ![t] =
          IF policy[t].search_client = <<>>
          THEN PolicyExcept(policy[t], "'NoneType' object has no attribute 'search'")
          ELSE LET p == [policy[t] EXCEPT !.log = Append(policy[t].log, "search"),
                                          !.filter = search_filter(t, policy[t].category)]
               IN IF outcome = "ok" THEN [p EXCEPT !.pc = "iterate"]
                  ELSE PolicyExcept(p, outcome)]
    /\ UNCHANGED notPolicy

\* for result in results: one document fetched and converted
PolicyNextHit(t, result) ==
    /\ policy[t].pc = "iterate"
    /\ Len(policy[t].examples) < MaxHits
    /\ policy' = [policy EXCEPT ![t].examples = Append(@, QueryExample(result))]
    /\ UNCHANGED notPolicy

\* the paged iterator raises while fetching
PolicyIterRaise(t, exc) ==
    /\ policy[t].pc = "iterate"
    /\ policy' = [policy EXCEPT ![t] = PolicyExcept(@, exc)]
    /\ UNCHANGED notPolicy

\* the iteration is exhausted: return query_examples
PolicyReturn(t) ==
    /\ policy[t].pc = "iterate"
    /\ policy' = [policy EXCEPT ![t].pc = "returned",
                     ![t].result = <<[kind |-> "list", items |-> policy[t].examples]>>]
    /\ UNCHANGED notPolicy

\* the caller has taken the result; the tool instance serves the next call
PolicyDone(t) ==
    /\ policy[t].pc = "returned"
    /\ policy[t].result[1].kind = "list"
    /\ policy' = [policy EXCEPT ![t].pc = "idle"]
    /\ UNCHANGED notPolicy

----------------------------------------------------------------------------
(* The AG-UI server: src/agui_server/agui_server.py, and the indexer it   *)
(* calls on upload, src/ingestion/search_index_pipeline.py                *)

notServer == <<registryVars, workflowVars, policyVars, executorVars>>

HttpRequests == {"h1", "h2"}

\* file.filename / the {filename} path parameter: None, or a string as characters
JsonName == <<"f", ".", "j", "s", "o", "n">>
UploadFilenames == {<<>>, << <<>> >>, << <<"f", ".", "t", "x", "t">> >>, <<JsonName>>}
PathFilenames == {JsonName}

\* one element of the uploaded array: a query sample, and one lacking "query"
Sample == [id |-> <<"1">>, query |-> <<"q">>, description |-> <<"d">>]
SampleNoQuery == [id |-> <<>>, query |-> <<>>, description |-> <<>>]

\* the bytes of the uploaded file: undecodable bytes, text that is not JSON,
\* and JSON texts (arrays of samples, and a number)
Contents ==
    { [decodable |-> FALSE, wellformed |-> FALSE, type |-> "None", items |-> <<>>],
      [decodable |-> TRUE, wellformed |-> FALSE, type |-> "None", items |-> <<>>],
      [decodable |-> TRUE, wellformed |-> TRUE, type |-> "int", items |-> <<>>],
      [decodable |-> TRUE, wellformed |-> TRUE, type |-> "list", items |-> <<>>],
      [decodable |-> TRUE, wellformed |-> TRUE, type |-> "list", items |-> <<Sample>>],
      [decodable |-> TRUE, wellformed |-> TRUE, type |-> "list", items |-> <<Sample, SampleNoQuery>>] }

\* which external call of the indexer fails, if any
IndexFailures ==
    {"none", "SearchIndexMaintainer", "ensure_index", "embeddings.create", "upload_documents"}

Outcome(kind, type, status_code, detail, body) ==
    [kind |-> kind, type |-> type, status_code |-> status_code, detail |-> detail, body |-> body]
HttpRaise(type, message) == Outcome("raise", type, 0, <<message>>, <<>>)
HTTPException(status_code, detail) == Outcome("raise", "HTTPException", status_code, detail, <<>>)
JSONResponse(content) == Outcome("response", "JSONResponse", 200, <<>>, <<content>>)
Value(type, items) == Outcome("value", type, 0, <<>>, items)

\* str.endswith on sequences of characters
EndsWith(s, suffix) ==
    /\ Len(s) >= Len(suffix)
    /\ SubSeq(s, Len(s) - Len(suffix) + 1, Len(s)) = suffix

\* json.loads(bytes): decode the bytes, then parse the text
json_loads(content) ==
    IF ~content.decodable
    THEN HttpRaise("UnicodeDecodeError", "'utf-8' codec can't decode byte 0xff")
    ELSE IF ~content.wellformed
    THEN HttpRaise("JSONDecodeError", "Expecting value")
    ELSE Value(content.type, content.items)

\* the loop of load_samples_from_json from element i on: the docs, or what it raises
RECURSIVE load_samples_loop(_, _, _)
load_samples_loop(items, i, fails) ==
    IF i > Len(items) THEN Value("list", <<>>)
    ELSE IF items[i].query = <<>> THEN HttpRaise("KeyError", "'query'")
    ELSE IF fails = "embeddings.create" THEN HttpRaise("Exception", "embeddings.create failed")
    ELSE LET rest == load_samples_loop(items, i + 1, fails)
             doc == [id |-> IF items[i].id = <<>> THEN <<"str(i)">> ELSE items[i].id,
                     query |-> items[i].query,
                     description |-> IF items[i].description = <<>> THEN <<"">>
                                     ELSE items[i].description,
                     intent_vector |-> "None"]
         IN IF rest.kind = "raise" THEN rest ELSE Value("list", <<doc>> \o rest.body)

load_samples_from_json(payload, fails) ==
    IF payload.type # "list"
    THEN HttpRaise("TypeError", "object of type 'int' has no len()")
    ELSE load_samples_loop(payload.body, 1, fails)

upload_samples_from_json(payload, fails) ==
    IF fails = "ensure_index" THEN HttpRaise("Exception", "ensure_index failed")
    ELSE LET docs == load_samples_from_json(payload, fails)
         IN IF docs.kind = "raise" THEN docs
            ELSE IF docs.body = <<>> THEN Value("None", <<>>)
            ELSE IF fails = "upload_documents"
            THEN HttpRaise("Exception", "upload_documents failed")
            ELSE Value("dict", docs.body)

\* the inner try of upload_query_file after file.read(), with its except clause
upload_parse_and_index(filename, content, fails) ==
    LET payload == json_loads(content)
    IN IF payload.kind = "raise"
       THEN IF payload.type = "JSONDecodeError"
            THEN HTTPException(400, <<"Invalid JSON format: ">> \o payload.detail)
            ELSE payload
       ELSE IF fails = "SearchIndexMaintainer"
       THEN HttpRaise("Exception", "SearchIndexMaintainer failed")
       ELSE LET search_upload_result == upload_samples_from_json(payload, fails)
            IN IF search_upload_result.kind = "raise" THEN search_upload_result
               ELSE IF search_upload_result.type = "None"
               THEN HttpRaise("TypeError", "'NoneType' object is not subscriptable")
               ELSE JSONResponse([status |-> "success", filename |-> filename,
                                  query_count |-> Len(search_upload_result.body),
                                  queries |-> search_upload_result.body])

\* except HTTPException: raise / except Exception as e: raise HTTPException(500, ...)
upload_except(outcome) ==
    IF outcome.kind = "raise" /\ outcome.type # "HTTPException"
    THEN HTTPException(500, <<"Error processing file: ">> \o outcome.detail)
    ELSE outcome

IdleHttp ==
    [op |-> "none", pc |-> "idle", filename |-> <<>>, content |-> <<>>, log |-> <<>>,
     cause |-> <<>>, response |-> <<>>, expect |-> <<>>]

Respond(h, outcome) == [h EXCEPT !.pc = "done", !.response = <<outcome>>]

\* POST /upload up to the first await: the filename check
UploadQueryFile(h, filename, content) ==
    /\ http[h].pc = "idle"
    /\ LET q == [IdleHttp EXCEPT !.op = "upload_query_file", !.filename = filename,
                                 !.content = <<content>>, !.expect = uploads]
       IN http' = [http EXCEPT ![h] =
              IF filename = <<>> \/ filename[1] = <<>>
                 \/ ~EndsWith(filename[1], <<".", "j", "s", "o", "n">>)
              THEN Respond([q EXCEPT !.cause =
                                <<HTTPException(400, <<"Only JSON files are allowed">>)>>],
                           upload_except(HTTPException(400, <<"Only JSON files are allowed">>)))
              ELSE [q EXCEPT !.pc = "file.read"]]
    /\ UNCHANGED <<uploaded_queries, uploads, safe, notServer>>

\* content = await file.read() returns or raises; the rest of the handler has no await
UploadRead(h, read_ok, fails) ==
    /\ http[h].pc = "file.read"
    /\ ~read_ok => fails = "none"
    /\ LET q == http[h]
           raw == IF read_ok THEN upload_parse_and_index(q.filename[1], q.content[1], fails)
                  ELSE HttpRaise("Exception", "read failed")
           indexed == read_ok /\ json_loads(q.content[1]).kind = "value"
                      /\ fails # "SearchIndexMaintainer"
           log == <<IF read_ok THEN <<"file.read", "ok">> ELSE <<"file.read", "raise">> >>
                  \o IF indexed THEN << <<"upload_samples_from_json", raw.kind>> >> ELSE <<>>
       IN /\ http' = [http EXCEPT ![h] =
                 Respond([q EXCEPT !.log = log,
                                   !.cause = IF raw.kind = "raise" THEN <<raw>> ELSE <<>>],
                         upload_except(raw))]
          /\ uploads' = IF raw.kind = "response"
                        THEN Put(uploads, q.filename[1], raw.body[1].queries)
                        ELSE uploads
    /\ UNCHANGED <<uploaded_queries, safe, notServer>>

\* GET /queries
get_uploaded_queries(h) ==
    /\ http[h].pc = "idle"
    /\ http' = [http EXCEPT ![h] =
          Respond([IdleHttp EXCEPT !.op = "get_uploaded_queries", !.expect = uploads],
                  JSONResponse([uploaded_files |-> KeyList(uploaded_queries),
                                queries |-> uploaded_queries]))]
    /\ UNCHANGED <<uploaded_queries, uploads, safe, notServer>>

\* GET /queries/{filename}
get_queries_by_filename(h, filename) ==
    /\ http[h].pc = "idle"
    /\ http' = [http EXCEPT ![h] =
          Respond([IdleHttp EXCEPT !.op = "get_queries_by_filename",
                                   !.filename = <<filename>>, !.expect = uploads],
                  IF ~Has(uploaded_queries, filename)
                  THEN HTTPException(404, <<"File ">> \o filename \o <<" not found">>)
                  ELSE JSONResponse([filename |-> filename,
                                     query_count |-> Len(Get(uploaded_queries, filename)),
                                     queries |-> Get(uploaded_queries, filename)]))]
    /\ UNCHANGED <<uploaded_queries, uploads, safe, notServer>>

\* dict without the key, as del uploaded_queries[filename] leaves it
Del(dict, key) == SelectSeq(dict, LAMBDA kv : kv[1] # key)

\* DELETE /queries/{filename}
delete_queries(h, filename) ==
    /\ http[h].pc = "idle"
    /\ LET found == Has(uploaded_queries, filename)
       IN /\ http' = [http EXCEPT ![h] =
                 Respond([IdleHttp EXCEPT !.op = "delete_queries", !.filename = <<filename>>,
                                          !.expect = uploads],
                         IF ~found THEN HTTPException(404, <<"File ">> \o filename \o <<" not found">>)
                         ELSE JSONResponse([status |-> "success",
                                            message |-> <<"Deleted ">> \o filename]))]
          /\ uploaded_queries' = IF found THEN Del(uploaded_queries, filename)
                                 ELSE uploaded_queries
          /\ uploads' = IF found THEN Del(uploads, filename) ELSE uploads
    /\ UNCHANGED <<safe, notServer>>

\* the response has been sent; the slot serves the next request
HttpClose(h) ==
    /\ http[h].pc = "done"
    /\ http' = [http EXCEPT ![h] = IdleHttp]
    /\ UNCHANGED <<uploaded_queries, uploads, safe, notServer>>

----------------------------------------------------------------------------
(* POST /workflow_safe: src/agui_server/agui_server.py                    *)

SafeRequests == {"s1", "s2"}

\* the last element of "messages": a dict with content, without it, and a non-dict
SafeMessages ==
    { [type |-> "dict", content |-> << <<" ", "h", "i", " ">> >>],
      [type |-> "dict", content |-> <<>>],
      [type |-> "str", content |-> <<>>] }

\* the `request` argument: an object without json() (a plain string), a request
\* whose body does not parse, one whose body is not an object, and JSON objects
\* with thread_id / run_id absent, empty or set, and messages absent, empty or
\* ending in one of SafeMessages
SafeArguments ==
    { [type |-> t, thread_id |-> <<>>, run_id |-> <<>>, messages |-> <<>>] :
          t \in {"str", "unparsable", "list"} }
    \cup { [type |-> "dict", thread_id |-> i, run_id |-> i, messages |-> m] :
             i \in {<<>>, <<"">>, <<"id1">>},
             m \in {<<>>, << <<>> >>} \cup { <<<<x>>>> : x \in SafeMessages } }

default_thread_id == <<"thread_", "pid">>
default_run_id == <<"run_", "pid">>

\* payload.get(key) or default
GetOr(field, default) == IF field = <<>> \/ field[1] = "" THEN default ELSE <<field[1]>>

\* the try/except of workflow_safe: the three values the generator closes over
workflow_safe_parse(request) ==
    LET defaults == [thread_id |-> default_thread_id, run_id |-> default_run_id,
                     user_text |-> <<>>]
        parsed(user_text) == [thread_id |-> GetOr(request.thread_id, default_thread_id),
                              run_id |-> GetOr(request.run_id, default_run_id),
                              user_text |-> user_text]
    IN IF request.type # "dict" THEN defaults
       ELSE IF request.messages = <<>> \/ request.messages[1] = <<>> THEN parsed(<<>>)
       ELSE LET last == request.messages[1][Len(request.messages[1])]
            IN IF last.type # "dict" THEN defaults
               ELSE IF last.content = <<>> THEN parsed(<<>>)
               ELSE parsed(Strip(last.content[1]))

\* the explanatory message built by event_generator
safe_text(user_text) ==
    <<"We received your request">>
    \o (IF user_text # <<>> THEN <<": '">> \o user_text \o <<"'. ">> ELSE <<". ">>)
    \o <<"However, the main workflow encountered an internal error during execution. ">>

text_chunks_PerPiece(text) == [i \in 1..Len(text) |-> <<text[i]>>]

\* for chunk in [text]
text_chunks(text) == <<text>>

\* the events event_generator yields, in order
event_generator(s) ==
    << [type |-> "THREAD_ID", value |-> s.thread_id],
       [type |-> "RUN_STARTED", value |-> s.run_id] >>
    \o [i \in 1..Len(text_chunks(safe_text(s.user_text))) |->
           [type |-> "TEXT_DELTA", value |-> text_chunks(safe_text(s.user_text))[i]]]
    \o << [type |-> "RUN_COMPLETED", value |-> <<>>] >>

IdleSafe ==
    [pc |-> "idle", request |-> <<>>, thread_id |-> <<>>, run_id |-> <<>>,
     user_text |-> <<>>, events |-> <<>>]

\* the handler body: parse with fallback, return the StreamingResponse
workflow_safe(s, request) ==
    /\ safe[s].pc = "idle"
    /\ LET v == workflow_safe_parse(request)
       IN safe' = [safe EXCEPT ![s] =
              [pc |-> "streaming", request |-> <<request>>, thread_id |-> v.thread_id,
               run_id |-> v.run_id, user_text |-> v.user_text, events |-> <<>>]]
    /\ UNCHANGED <<uploaded_queries, uploads, http, notServer>>

\* the response iterates the generator: the next event is yielded and sent
SafeYield(s) ==
    /\ safe[s].pc = "streaming"
    /\ Len(safe[s].events) < Len(event_generator(safe[s]))
    /\ safe' = [safe EXCEPT ![s].events =
                   Append(@, event_generator(safe[s])[Len(safe[s].events) + 1])]
    /\ UNCHANGED <<uploaded_queries, uploads, http, notServer>>

\* the generator is exhausted and the stream ends
SafeEnd(s) ==
    /\ safe[s].pc = "streaming"
    /\ Len(safe[s].events) = Len(event_generator(safe[s]))
    /\ safe' = [safe EXCEPT ![s].pc = "closed"]
    /\ UNCHANGED <<uploaded_queries, uploads, http, notServer>>

\* the connection is gone; the slot serves the next request
SafeClose(s) ==
    /\ safe[s].pc = "closed"
    /\ safe' = [safe EXCEPT ![s] = IdleSafe]
    /\ UNCHANGED <<uploaded_queries, uploads, http, notServer>>

----------------------------------------------------------------------------
(* The A2A executors: src/intranet_agent/intranet_agent_executor.py,       *)
(* src/work_env_agent/work_env_agent_executor.py and                       *)
(* samples/a2a_communication/server/weather_agent_executor.py              *)

notExecutor == <<registryVars, workflowVars, policyVars, serverVars>>

Executors == {"intranet", "work_env", "weather"}
\* calls of execute / cancel, each with its own RequestContext and EventQueue
ExecutorCalls == {"x1", "x2"}

\* context.message (None or a message) and context.current_task (None or a task)
Contexts ==
    { [message |-> m, current_task |-> t] :
          m \in {<<>>, <<[text |-> "question", context_id |-> "ctx-1"]>>},
          t \in {<<>>, <<[id |-> "task-0", context_id |-> "ctx-0", state |-> "working"]>>} }

\* what the model call gives back: assistant text, no assistant text, or an exception
ModelOutcomes ==
    { [kind |-> "ok", assistant |-> <<"answer">>, str |-> "str(result)"],
      [kind |-> "ok", assistant |-> <<>>, str |-> "str(result)"],
      [kind |-> "raise", assistant |-> <<>>, str |-> "model call failed"] }

Event(kind, task, state, final, append, last_chunk, text) ==
    [kind |-> kind, task_id |-> task.id, context_id |-> task.context_id, state |-> state,
     final |-> final, append |-> append, last_chunk |-> last_chunk, text |-> text]

\* a2a.utils.new_task(message): a fresh task in the message's context
new_task(message) == [id |-> "task-new", context_id |-> message.context_id, state |-> "submitted"]

TaskEvent(task) == Event("Task", task, task.state, FALSE, FALSE, FALSE, "")

ArtifactUpdate_Streaming(task, text) ==
    Event("TaskArtifactUpdateEvent", task, "", FALSE, TRUE, FALSE, text)

\* TaskArtifactUpdateEvent(append=False, ..., last_chunk=True, artifact=new_text_artifact(...))
ArtifactUpdate(task, text) ==
    Event("TaskArtifactUpdateEvent", task, "", FALSE, FALSE, TRUE, text)

\* TaskStatusUpdateEvent(status=TaskStatus(state=TaskState.completed), final=True, ...)
StatusUpdate(task) == Event("TaskStatusUpdateEvent", task, "completed", TRUE, FALSE, FALSE, "")

\* the artifact text: the intranet executor joins the assistant messages and
\* falls back to str(result); the other two take str(response)
response_text(executor, result) ==
    IF executor = "intranet" /\ result.assistant # <<>> THEN result.assistant[1]
    ELSE result.str

cancel_events_Canceled(x) ==
    IF x.task = <<>> THEN <<>>
    ELSE <<Event("TaskStatusUpdateEvent", x.task[1], "canceled", TRUE, FALSE, FALSE, "")>>

\* cancel enqueues nothing
cancel_events(x) == <<>>

IdleCall ==
    [executor |-> "None", pc |-> "idle", context |-> <<>>, task |-> <<>>, queue |-> <<>>,
     response |-> <<>>, exc |-> <<>>, cancel |-> <<>>]

ExecRaise(x, message) == [x EXCEPT !.pc = "raised", !.exc = <<message>>]

\* execute up to the model call: the message check, and the new task event
Execute(c, executor, context) ==
    /\ exec[c].pc = "idle"
    /\ LET x == [exec[c] EXCEPT !.executor = executor, !.context = <<context>>,
                                !.task = context.current_task]
       IN exec' = [exec EXCEPT ![c] =
              IF context.message = <<>> THEN ExecRaise(x, "No message provided")
              ELSE IF x.task = <<>>
              THEN [x EXCEPT !.task = <<new_task(context.message[1])>>,
                             !.queue = Append(@, TaskEvent(new_task(context.message[1]))),
                             !.pc = IF executor = "intranet" THEN "enter" ELSE "model"]
              ELSE [x EXCEPT !.pc = IF executor = "intranet" THEN "enter" ELSE "model"]]
    /\ UNCHANGED notExecutor

\* async with ChatAgent(... tools=MCPStreamableHTTPTool(...)): entering connects to the MCP server
AgentEnter(c, connected) ==
    /\ exec[c].pc = "enter"
    /\ exec' = [exec EXCEPT ![c] =
          IF connected THEN [@ EXCEPT !.pc = "model"]
          ELSE ExecRaise(@, "MCP connection failed")]
    /\ UNCHANGED notExecutor

\* await agent.run(query) / await self.agent.get_response(query, tools=...)
ModelCall(c, outcome) ==
    /\ exec[c].pc = "model"
    /\ exec' = [exec EXCEPT ![c] =
          IF outcome.kind = "raise" THEN ExecRaise(@, outcome.str)
          ELSE [@ EXCEPT !.pc = "artifact",
                         !.response = <<response_text(exec[c].executor, outcome)>>]]
    /\ UNCHANGED notExecutor

\* await event_queue.enqueue_event(TaskArtifactUpdateEvent(...))
EnqueueArtifact(c) ==
    /\ exec[c].pc = "artifact"
    /\ exec' = [exec EXCEPT ![c].pc = "status",
                   ![c].queue = Append(@, ArtifactUpdate(exec[c].task[1], exec[c].response[1]))]
    /\ UNCHANGED notExecutor

\* await event_queue.enqueue_event(TaskStatusUpdateEvent(...)), then execute returns
EnqueueStatus(c) ==
    /\ exec[c].pc = "status"
    /\ exec' = [exec EXCEPT ![c].pc = "returned",
                   ![c].queue = Append(@, StatusUpdate(exec[c].task[1]))]
    /\ UNCHANGED notExecutor

\* cancel(context, event_queue): raise Exception('cancel not supported')
Cancel(c) ==
    /\ exec[c].cancel = <<>>
    /\ exec' = [exec EXCEPT ![c].cancel = <<"cancel not supported">>,
                   ![c].queue = @ \o cancel_events(exec[c])]
    /\ UNCHANGED notExecutor

----------------------------------------------------------------------------
(* The specifications *)

AllAgentIds ==
    {"intranet_agent", "work_env_agent", "hello-world-agent", "new_agent", "invented_agent"}

\* the AgentCard objects __init__ passes to add_*_agent_card
ConstructPassed(domain) ==
    [a \in AllAgentIds |->
        CASE a = "intranet_agent" -> <<intranet_agent_card(intranet_agent_url(domain))>>
          [] a = "work_env_agent" -> <<work_env_agent_card(get_work_env_agent_url(domain))>>
          [] a = "hello-world-agent" -> <<hello_world_agent_card>>
          [] OTHER -> <<>>]

\* __init__: the method each of the three registrations goes through
ConstructStoredBy ==
    [a \in AllAgentIds |->
        CASE a \in {"intranet_agent", "work_env_agent"} -> "add_a2a_agent_card"
          [] a = "hello-world-agent" -> "add_foundry_agent_card"
          [] OTHER -> "None"]

InitRegistry ==
    /\ DEFAULT_DOMAIN \in Domains
    /\ AGENT_CARDS = Construct(DEFAULT_DOMAIN)
    /\ passed = ConstructPassed(DEFAULT_DOMAIN)
    /\ stored_by = ConstructStoredBy
    /\ adds = 0
    /\ req = [r \in Requests |-> IdleRequest]

Init ==
    /\ InitRegistry
    /\ wf = [w \in WorkflowRuns |-> IdleRun]
    /\ policy = [t \in PolicyTools |-> IdlePolicy]
    /\ uploaded_queries = <<>>
    /\ uploads = <<>>
    /\ http = [h \in HttpRequests |-> IdleHttp]
    /\ safe = [s \in SafeRequests |-> IdleSafe]
    /\ exec = [c \in ExecutorCalls |-> IdleCall]

Next ==
    \/ \E agent_id \in AddIds, agent_card \in AddCards : AddA2AAgentCard(agent_id, agent_card)
    \/ \E agent_id \in AddIds, agent_card \in AddCards :
          AddFoundryAgentCard(agent_id, agent_card)
    \/ \E r \in Requests : GetAllAgents(r)
    \/ \E r \in Requests, query \in Queries : CallGenerateAgentRecommendation(r, query)
    \/ \E r \in Requests : RecommendClient(r)
    \/ \E r \in Requests : RecommendRunIssue(r)
    \/ \E r \in Requests : RecommendRunDone(r)
    \/ \E r \in Requests, agent_id \in AgentIdArgs, query \in Queries :
          CallExecuteAgent(r, agent_id, query)
    \/ \E r \in Requests : ExecuteLookup(r)
    \/ \E r \in Requests : FoundryClient(r)
    \/ \E r \in Requests : FoundryGetIssue(r)
    \/ \E r \in Requests : FoundryGetDone(r)
    \/ \E r \in Requests : FoundryOpenAI(r)
    \/ \E r \in Requests : FoundryCreateIssue(r)
    \/ \E r \in Requests : FoundryCreateDone(r)
    \/ \E r \in Requests : A2AResolveIssue(r)
    \/ \E r \in Requests : A2AResolveDone(r)
    \/ \E r \in Requests : A2AConstruct(r)
    \/ \E r \in Requests : A2ARunIssue(r)
    \/ \E r \in Requests : A2ARunDone(r)

Spec == Init /\ [][Next]_vars

NextWorkflow ==
    \/ \E w \in WorkflowRuns, query \in Queries : RunWorkflow(w, query)
    \/ \E w \in WorkflowRuns, s \in Stages : StageStart(w, s)
    \/ \E w \in WorkflowRuns, s \in Stages : StageComplete(w, s)
    \/ \E w \in WorkflowRuns, s \in Stages : StageFail(w, s)
    \/ \E w \in WorkflowRuns : WorkflowComplete(w)

SpecWorkflow == Init /\ [][NextWorkflow]_vars

NextPolicy ==
    \/ \E t \in PolicyTools, e \in SearchEndpoints, c \in BOOLEAN : PolicyInit(t, e, c)
    \/ \E t \in PolicyTools, q \in PolicyQueries, c \in Categories : PolicyRun(t, q, c)
    \/ \E t \in PolicyTools, b \in BOOLEAN : PolicyGetOpenAIClient(t, b)
    \/ \E t \in PolicyTools, o \in {"ok", "no data"} \cup PolicyErrors : PolicyEmbed(t, o)
    \/ \E t \in PolicyTools, o \in {"ok"} \cup PolicyErrors : PolicySearch(t, o)
    \/ \E t \in PolicyTools, h \in Hits : PolicyNextHit(t, h)
    \/ \E t \in PolicyTools, e \in PolicyErrors : PolicyIterRaise(t, e)
    \/ \E t \in PolicyTools : PolicyReturn(t)
    \/ \E t \in PolicyTools : PolicyDone(t)

SpecPolicy == Init /\ [][NextPolicy]_vars

NextServer ==
    \/ \E h \in HttpRequests, f \in UploadFilenames, c \in Contents : UploadQueryFile(h, f, c)
    \/ \E h \in HttpRequests, ok \in BOOLEAN, fails \in IndexFailures : UploadRead(h, ok, fails)
    \/ \E h \in HttpRequests : get_uploaded_queries(h)
    \/ \E h \in HttpRequests, f \in PathFilenames : get_queries_by_filename(h, f)
    \/ \E h \in HttpRequests, f \in PathFilenames : delete_queries(h, f)
    \/ \E h \in HttpRequests : HttpClose(h)

SpecServer == Init /\ [][NextServer]_vars

NextSafe ==
    \/ \E s \in SafeRequests, request \in SafeArguments : workflow_safe(s, request)
    \/ \E s \in SafeRequests : SafeYield(s)
    \/ \E s \in SafeRequests : SafeEnd(s)
    \/ \E s \in SafeRequests : SafeClose(s)

SpecSafe == Init /\ [][NextSafe]_vars

NextExecutor ==
    \/ \E c \in ExecutorCalls, e \in Executors, context \in Contexts : Execute(c, e, context)
    \/ \E c \in ExecutorCalls, connected \in BOOLEAN : AgentEnter(c, connected)
    \/ \E c \in ExecutorCalls, outcome \in ModelOutcomes : ModelCall(c, outcome)
    \/ \E c \in ExecutorCalls : EnqueueArtifact(c)
    \/ \E c \in ExecutorCalls : EnqueueStatus(c)
    \/ \E c \in ExecutorCalls : Cancel(c)

SpecExecutor == Init /\ [][NextExecutor]_vars

\* every call the executor awaits returns or raises, and the event loop runs
\* every coroutine that can take a step
SpecExecutorFair == SpecExecutor /\ WF_vars(NextExecutor)

----------------------------------------------------------------------------
(* Properties *)

ExecuteRequests == {r \in Requests : req[r].op = "execute_agent"}

RecommendRequests == {r \in Requests : req[r].op = "generate_agent_recommendation"}

ExternalCalls == {"get_agent_card", "agent.run", "agents.get", "responses.create"}

FoundryCalls == {"AIProjectClient", "agents.get", "get_openai_client", "responses.create"}

A2ACalls == {"get_agent_card", "A2AAgent", "agent.run"}

\* positions of the log where `call` was started (issued, or run as a local step)
Positions(log, events, call) ==
    {i \in 1..Len(log) : log[i][1] \in events /\ log[i][2] = call}

Returned(r) == req[r].pc = "returned"

IsResult(r) == Returned(r) /\ req[r].result[1].kind = "QueryExecutionResult"

\* C1: execute_agent with an agent_id that is not a key of the registry returns an
\* error-flagged QueryExecutionResult echoing agent_id and query, with content naming
\* the agent, and has made no external call and run no other step before returning.
C1_UnknownAgentReturnsError ==
    \A r \in ExecuteRequests :
        (req[r].pc # "execute_agent" /\ ~Has(AGENT_CARDS, req[r].agent_id)) =>
            /\ IsResult(r)
            /\ req[r].result[1].is_error = TRUE
            /\ req[r].result[1].id = req[r].agent_id
            /\ req[r].result[1].query = req[r].query
            /\ \E i \in 1..Len(req[r].result[1].content) :
                  req[r].result[1].content[i] = req[r].agent_id
            /\ req[r].outstanding = {}
            /\ req[r].log = << <<"return", "QueryExecutionResult">> >>

C1_Witness ==
    \E r \in ExecuteRequests :
        /\ Returned(r)
        /\ req[r].agent_id = "new_agent"
        /\ ~Has(AGENT_CARDS, "new_agent")

\* C2 (as claimed): for a registered agent_id execute_agent takes exactly one of the
\* two paths its card's flag selects and returns a QueryExecutionResult, never None,
\* whether AZURE_AI_PROJECT_ENDPOINT is set or not.
C2_RegisteredAgentReturnsResult ==
    \A r \in ExecuteRequests :
        (Returned(r) /\ req[r].card # <<>>) =>
            /\ req[r].result[1].kind = "QueryExecutionResult"
            /\ req[r].card[1].is_foundry_agent =>
                  /\ \E c \in FoundryCalls : Positions(req[r].log, {"issue", "step", "raise"}, c) # {}
                  /\ \A c \in A2ACalls : Positions(req[r].log, {"issue", "step", "raise"}, c) = {}
            /\ req[r].card[1].is_a2a_agent =>
                  /\ \E c \in A2ACalls : Positions(req[r].log, {"issue", "step", "raise"}, c) # {}
                  /\ \A c \in FoundryCalls : Positions(req[r].log, {"issue", "step", "raise"}, c) = {}

\* C3: execute_agent never raises; when a step after the lookup raises, the call
\* returns an error-flagged QueryExecutionResult echoing agent_id and query whose
\* content is the exception's message.
C3_ExceptionBecomesErrorResult ==
    \A r \in ExecuteRequests :
        /\ Returned(r) => req[r].result[1].kind # "raise"
        /\ req[r].exc # <<>> =>
              /\ IsResult(r)
              /\ req[r].result[1].is_error = TRUE
              /\ req[r].result[1].id = req[r].agent_id
              /\ req[r].result[1].query = req[r].query
              /\ req[r].result[1].content = <<req[r].exc[1]>>

C3_Witness ==
    \E r \in ExecuteRequests :
        /\ Returned(r)
        /\ req[r].exc = <<"timed out">>
        /\ Positions(req[r].log, {"raise"}, "agent.run") # {}

\* C4: every key of the registry maps to the card most recently registered under it:
\* the stored agent_id is the key and name, url and description are those of the
\* AgentCard passed; the card execute_agent binds is the one stored under its agent_id.
C4_RegistryHoldsRegisteredCard ==
    /\ \A a \in Keys(AGENT_CARDS) :
          /\ Cardinality({i \in 1..Len(AGENT_CARDS) : AGENT_CARDS[i][1] = a}) = 1
          /\ passed[a] # <<>>
          /\ Get(AGENT_CARDS, a).agent_id = a
          /\ Get(AGENT_CARDS, a).name = passed[a][1].name
          /\ Get(AGENT_CARDS, a).url = passed[a][1].url
          /\ Get(AGENT_CARDS, a).description = passed[a][1].description
    /\ \A a \in AllAgentIds : passed[a] # <<>> => Has(AGENT_CARDS, a)
    /\ \A r \in ExecuteRequests :
          req[r].card # <<>> => req[r].card[1].agent_id = req[r].agent_id

C4_Witness ==
    /\ adds > 0
    /\ Has(AGENT_CARDS, "intranet_agent")
    /\ Get(AGENT_CARDS, "intranet_agent").name = "Custom Agent"
    /\ \E r \in ExecuteRequests :
          req[r].card # <<>> /\ req[r].card[1].name = "Custom Agent"

\* the model honoured the prompt: the agent_id it chose is in the prompt's id list
Honoured(r) ==
    \E i \in 1..Len(req[r].available_agent_ids) :
        req[r].available_agent_ids[i] = req[r].response[1].agent_id

\* C5: when the model honours the prompt's list of valid ids, the agent_id of the
\* record generate_agent_recommendation returns is a key of the registry.
C5_RecommendedAgentIsRegistered ==
    \A r \in RecommendRequests :
        (Returned(r) /\ req[r].result[1].kind = "AgentQueryExample" /\ Honoured(r)) =>
            Has(AGENT_CARDS, req[r].result[1].agent_id)

C5_Witness ==
    \E r \in RecommendRequests :
        /\ Returned(r)
        /\ req[r].result[1].kind = "AgentQueryExample"
        /\ Honoured(r)
        /\ req[r].result[1].agent_id = "new_agent"

\* C6: when the model call yields a structured record, generate_agent_recommendation
\* returns that record with every field unchanged, valid agent_id or not.
C6_RecommendationReturnedVerbatim ==
    \A r \in RecommendRequests :
        (req[r].response # <<>> /\ req[r].response[1].kind # "None") =>
            /\ Returned(r)
            /\ req[r].result[1].kind = "AgentQueryExample"
            /\ req[r].result = req[r].response

C6_Witness ==
    \E r \in RecommendRequests :
        /\ Returned(r)
        /\ req[r].result[1].kind = "AgentQueryExample"
        /\ req[r].result[1].agent_id = "invented_agent"
        /\ req[r].result[1].score = "0.9"
        /\ ~Has(AGENT_CARDS, "invented_agent")

\* C7: every step other than an add_*_agent_card call (get_all_agents, every step of
\* generate_agent_recommendation and of execute_agent) leaves the registry unchanged.
C7_OnlyRegistrationWritesRegistry ==
    [][adds' = adds => AGENT_CARDS' = AGENT_CARDS]_vars

C7_Witness ==
    /\ adds = 0
    /\ AGENT_CARDS = Construct(DEFAULT_DOMAIN)
    /\ \E r \in ExecuteRequests : Returned(r) /\ req[r].exc # <<>>
    /\ \E r \in RecommendRequests : Returned(r)

\* the chain the workflow is claimed to be
Chain == <<"Moderator", "Planner", "Executor", "Summarizer">>

IsPrefix(s, t) == Len(s) <= Len(t) /\ \A i \in 1..Len(s) : s[i] = t[i]

C9_NoRetry ==
    \A r \in ExecuteRequests :
        /\ \A c \in ExternalCalls : Cardinality(Positions(req[r].log, {"issue"}, c)) <= 1
        /\ \A i \in 1..Len(req[r].log) :
              req[r].log[i][1] = "raise" =>
                  /\ \A j \in (i + 1)..Len(req[r].log) : req[r].log[j][1] = "return"
                  /\ IsResult(r)
                  /\ req[r].result[1].is_error = TRUE

C9_Witness ==
    \E r \in ExecuteRequests :
        /\ Returned(r)
        /\ Positions(req[r].log, {"raise"}, "get_agent_card") # {}

\* C10: on the A2A path the query is forwarded only after the agent card was
\* resolved successfully, at most one call of the request is outstanding at a time,
\* and the result is returned only after the forwarded query has completed.
C10_A2ACallsSequential ==
    \A r \in ExecuteRequests :
        /\ Cardinality(req[r].outstanding) <= 1
        /\ \A i \in Positions(req[r].log, {"issue"}, "agent.run") :
              \E j \in 1..(i - 1) : req[r].log[j] = <<"ok", "get_agent_card">>
        /\ Returned(r) => req[r].outstanding = {}
        /\ (IsResult(r) /\ req[r].card # <<>> /\ req[r].card[1].is_a2a_agent
              /\ ~req[r].result[1].is_error) =>
                 \E j \in 1..Len(req[r].log) : req[r].log[j] = <<"ok", "agent.run">>

C10_Witness ==
    \E r \in ExecuteRequests :
        /\ IsResult(r)
        /\ ~req[r].result[1].is_error
        /\ req[r].card[1].is_a2a_agent
        /\ req[r].result[1].content = <<"str", "a2a value">>

\* the outcome kind and error flag a request produces from its own arguments, its
\* own bound card and the external outcomes it received, whatever else is running
OwnOutcomeKind(q) ==
    IF q.op = "execute_agent"
    THEN IF q.card = <<>> \/ q.exc # <<>> THEN "QueryExecutionResult"
         ELSE IF q.card[1].is_foundry_agent /\ q.project_endpoint # <<>>
                 /\ ~q.card[1].is_a2a_agent
              THEN "None"
              ELSE "QueryExecutionResult"
    ELSE IF q.op = "generate_agent_recommendation"
    THEN IF q.exc # <<>> THEN "raise" ELSE "AgentQueryExample"
    ELSE "str"

OwnErrorFlag(q) == q.card = <<>> \/ q.exc # <<>>

\* C11: under every interleaving a returned request has the outcome determined by its
\* own arguments and external responses (kind, error flag, id and query echoed, the
\* model's own record or exception for a recommendation), every step changes at most
\* one request, and a step of a request leaves the registry as it was.
C11_RequestsDoNotInterfere ==
    /\ [](\A r \in Requests :
            Returned(r) =>
                /\ req[r].result[1].kind = OwnOutcomeKind(req[r])
                /\ req[r].result[1].kind = "QueryExecutionResult" =>
                      /\ req[r].result[1].id = req[r].agent_id
                      /\ req[r].result[1].query = req[r].query
                      /\ req[r].result[1].is_error = OwnErrorFlag(req[r])
                /\ req[r].result[1].kind = "AgentQueryExample" =>
                      req[r].result = req[r].response
                /\ req[r].result[1].kind = "raise" =>
                      req[r].result[1].exc = req[r].exc[1])
    /\ [][/\ \A r1, r2 \in Requests :
                r1 # r2 => (req'[r1] = req[r1] \/ req'[r2] = req[r2])
          /\ req' # req => AGENT_CARDS' = AGENT_CARDS]_vars

C11_Witness ==
    \E r1, r2 \in ExecuteRequests :
        /\ IsResult(r1) /\ ~req[r1].result[1].is_error
        /\ req[r1].card[1].is_a2a_agent
        /\ req[r1].query = "q1"
        /\ req[r2].query = "q2"
        /\ req[r2].agent_id # req[r1].agent_id
        /\ Len(req[r2].log) > 0
        /\ req[r2].outstanding # {}

\* C16: every QueryExecutionResult execute_agent returns echoes the agent_id and query
\* arguments, has score 1.0 when is_error is False and no score when is_error is True.
C16_ResultFieldsConsistent ==
    \A r \in ExecuteRequests :
        IsResult(r) =>
            /\ req[r].result[1].id = req[r].agent_id
            /\ req[r].result[1].query = req[r].query
            /\ ~req[r].result[1].is_error => req[r].result[1].score = "1.0"
            /\ req[r].result[1].is_error => req[r].result[1].score = "None"

C16_Witness ==
    \E r \in ExecuteRequests :
        /\ IsResult(r)
        /\ req[r].card # <<>> /\ req[r].card[1].is_foundry_agent
        /\ ~req[r].result[1].is_error
        /\ req[r].result[1].score = "1.0"

\* C17: the tool wrappers never raise: when the registry call raised or returned no
\* result object the wrapper returns a one-element list holding an 'error' entry,
\* otherwise the dictionary form of the registry's result; a failed execution is
\* reported as the error list or as a dictionary with is_error True, never a success.
C17_ToolWrappersNeverRaise ==
    \A r \in ExecuteRequests \cup RecommendRequests :
        Returned(r) =>
            /\ req[r].tool_result # <<>>
            /\ req[r].tool_result[1].kind \in {"list", "dict"}
            /\ req[r].result[1].kind \in {"raise", "None"} =>
                  /\ req[r].tool_result[1].kind = "list"
                  /\ Len(req[r].tool_result[1].error) = 3
            /\ req[r].result[1].kind \in {"QueryExecutionResult", "AgentQueryExample"} =>
                  req[r].tool_result[1] = [req[r].result[1] EXCEPT !.kind = "dict"]
            /\ (req[r].op = "execute_agent" /\ (req[r].card = <<>> \/ req[r].exc # <<>>)) =>
                  /\ req[r].tool_result[1].kind = "dict"
                  /\ req[r].tool_result[1].is_error = TRUE
            /\ (req[r].op = "generate_agent_recommendation" /\ req[r].exc # <<>>) =>
                  req[r].tool_result[1].kind = "list"

C17_Witness ==
    /\ \E r \in ExecuteRequests :
          /\ Returned(r) /\ req[r].result[1].kind = "None"
          /\ req[r].tool_result[1].kind = "list"
    /\ \E r \in RecommendRequests :
          /\ Returned(r) /\ req[r].exc = <<"UnboundLocalError">>
          /\ req[r].tool_result[1].kind = "list"


\* C12: PolicySearchTool.run never raises: every finished call returns a list,
\* and the empty list when the client, embedding, search or iteration failed;
\* the MCP variant without a search client returns the empty list and has
\* made no call to the embedding service or the index.
C12_PolicySearchNeverRaises ==
    \A t \in PolicyTools :
        policy[t].pc = "returned" =>
            /\ policy[t].result[1].kind = "list"
            /\ policy[t].exc # <<>> => policy[t].result[1].items = <<>>
            /\ (t = "mcp" /\ policy[t].search_client = <<>>) =>
                   /\ policy[t].result[1].items = <<>>
                   /\ policy[t].log = <<>>
                   /\ policy[t].openai_client = <<>>

\* the MCP tool returned without a client, and the work-env tool's search failed
C12_Witness ==
    /\ policy["mcp"].pc = "returned" /\ policy["mcp"].search_client = <<>>
    /\ policy["work_env"].pc = "returned" /\ policy["work_env"].exc # <<>>
    /\ policy["work_env"].log = <<"embeddings.create", "search">>

UploadsDone == {h \in HttpRequests : http[h].op = "upload_query_file" /\ http[h].pc = "done"}
ValidJSON(content) == content.decodable /\ content.wellformed
JsonFilename(filename) ==
    filename # <<>> /\ filename[1] # <<>> /\ EndsWith(filename[1], <<".", "j", "s", "o", "n">>)

\* a filename that is missing or does not end in '.json' gives 400 with no read and no indexing
C13a_BadFilenameRejectedFirst ==
    \A h \in UploadsDone :
        ~JsonFilename(http[h].filename) =>
            http[h].response[1].status_code = 400 /\ http[h].log = <<>>

\* content that was read and is not valid JSON gives 400
C13b_InvalidJsonIs400 ==
    \A h \in UploadsDone :
        (<<"file.read", "ok">> \in Range(http[h].log) /\ ~ValidJSON(http[h].content[1])) =>
            http[h].response[1].status_code = 400

\* any other exception gives 500 carrying its message
C13c_OtherFailureIs500 ==
    \A h \in UploadsDone :
        (http[h].cause # <<>> /\ http[h].cause[1].type # "HTTPException"
         /\ (<<"file.read", "ok">> \in Range(http[h].log) => ValidJSON(http[h].content[1]))) =>
            /\ http[h].response[1].status_code = 500
            /\ http[h].response[1].detail
                 = <<"Error processing file: ">> \o http[h].cause[1].detail

\* a 400 raised inside the handler leaves it as a 400
C13d_400StaysA400 ==
    \A h \in UploadsDone :
        (http[h].cause # <<>> /\ http[h].cause[1].type = "HTTPException") =>
            http[h].response[1] = http[h].cause[1]

\* C13: POST /upload maps failures to HTTP errors: a missing filename or one
\* not ending in '.json' gives 400 before the file is read or any indexing
\* call is made; content that is not valid JSON gives 400; any other failure
\* gives 500 carrying the exception message; a 400 raised inside the handler
\* is never converted into a 500.
C13_UploadMapsFailures ==
    /\ C13a_BadFilenameRejectedFirst
    /\ C13b_InvalidJsonIs400
    /\ C13c_OtherFailureIs500
    /\ C13d_400StaysA400

\* C14: every file uploaded successfully and not deleted since is listed by
\* GET /queries, and GET /queries/F returns its queries and their count.
C14_UploadedFilesAreListed ==
    \A h \in HttpRequests :
        http[h].pc = "done" =>
            /\ http[h].op = "get_uploaded_queries" =>
                   \A i \in 1..Len(http[h].expect) :
                       http[h].expect[i][1] \in Range(http[h].response[1].body[1].uploaded_files)
            /\ (http[h].op = "get_queries_by_filename"
                /\ Has(http[h].expect, http[h].filename[1])) =>
                   /\ http[h].response[1].status_code = 200
                   /\ http[h].response[1].body[1].queries
                        = Get(http[h].expect, http[h].filename[1])
                   /\ http[h].response[1].body[1].query_count
                        = Len(Get(http[h].expect, http[h].filename[1]))

SafeOrder == <<"THREAD_ID", "RUN_STARTED", "TEXT_DELTA", "RUN_COMPLETED">>
EventTypes(events) == [i \in 1..Len(events) |-> events[i].type]

ExpectedEvents(x) ==
    (IF x.context[1].current_task = <<>> THEN <<TaskEvent(x.task[1])>> ELSE <<>>)
    \o <<ArtifactUpdate(x.task[1], x.response[1]), StatusUpdate(x.task[1])>>

\* C18: an execute whose request carries a message and whose model call
\* succeeded enqueues only the first events of: the new task (when the request
\* had no current task), one artifact update with append = False and
\* last_chunk = True, one completed status update with final = True, both
\* updates carrying the id and context_id of the task in use; when it has
\* returned it has enqueued exactly these.
C18_EventsInOrder ==
    \A c \in ExecutorCalls :
        exec[c].response # <<>> =>
            /\ IsPrefix(exec[c].queue, ExpectedEvents(exec[c]))
            /\ exec[c].pc = "returned" =>
                   /\ exec[c].queue = ExpectedEvents(exec[c])
                   /\ LET n == Len(exec[c].queue)
                      IN /\ exec[c].queue[n].final /\ exec[c].queue[n].state = "completed"
                         /\ ~exec[c].queue[n - 1].append /\ exec[c].queue[n - 1].last_chunk
                         /\ \A i \in {n - 1, n} :
                                /\ exec[c].queue[i].task_id = exec[c].task[1].id
                                /\ exec[c].queue[i].context_id = exec[c].task[1].context_id
                         /\ \A i \in 1..(n - 1) : ~exec[c].queue[i].final

\* the intranet executor returned for a request without a current task
C18_Witness ==
    \E c \in ExecutorCalls :
        /\ exec[c].pc = "returned" /\ exec[c].executor = "intranet"
        /\ exec[c].context[1].current_task = <<>>
        /\ Len(exec[c].queue) = 3

\* a task event in the call's queue with no final status update for its task after it
TaskAwaitingFinal(c) ==
    \E i \in 1..Len(exec[c].queue) :
        /\ exec[c].queue[i].kind = "Task"
        /\ ~\E j \in (i + 1)..Len(exec[c].queue) :
               /\ exec[c].queue[j].kind = "TaskStatusUpdateEvent"
               /\ exec[c].queue[j].final
               /\ exec[c].queue[j].task_id = exec[c].queue[i].task_id

\* C19: every task event enqueued by execute is eventually followed by a
\* status update with final = True for the same task.
C19_TaskEventuallyFinal ==
    \A c \in ExecutorCalls : TaskAwaitingFinal(c) ~> ~TaskAwaitingFinal(c)

\* C20: execute called without a message raises 'No message provided' with
\* nothing enqueued, and cancel raises 'cancel not supported' and leaves the
\* event queue and the task as they were.
C20_NoMessageAndCancelRaise ==
    /\ [](\A c \in ExecutorCalls :
            (exec[c].context # <<>> /\ exec[c].context[1].message = <<>>) =>
                /\ exec[c].pc = "raised" /\ exec[c].exc = <<"No message provided">>
                /\ exec[c].queue = <<>>)
    /\ [][\A c \in ExecutorCalls :
            exec'[c].cancel # exec[c].cancel =>
                /\ exec'[c].cancel = <<"cancel not supported">>
                /\ exec'[c].queue = exec[c].queue
                /\ exec'[c].task = exec[c].task
                /\ exec'[c].pc = exec[c].pc]_vars

\* cancel was called on an execute that had enqueued its new task, and an
\* execute without a message has raised
C20_Witness ==
    /\ exec["x1"].cancel # <<>> /\ exec["x1"].queue # <<>>
    /\ exec["x2"].pc = "raised" /\ exec["x2"].context[1].message = <<>>

\* the flags (is_foundry_agent, is_a2a_agent) of the card stored under an id
Flags(a) == <<Get(AGENT_CARDS, a).is_foundry_agent, Get(AGENT_CARDS, a).is_a2a_agent>>

\* C21: every stored card has exactly one of is_foundry_agent and
\* is_a2a_agent set: (False, True) when add_a2a_agent_card stored it last,
\* (True, False) when add_foundry_agent_card did, whatever has run since.
C21_ExactlyOneFlag ==
    \A i \in 1..Len(AGENT_CARDS) :
        LET a == AGENT_CARDS[i][1]
        IN /\ Flags(a)[1] # Flags(a)[2]
           /\ stored_by[a] \in {"add_a2a_agent_card", "add_foundry_agent_card"}
           /\ stored_by[a] = "add_a2a_agent_card" => Flags(a) = <<FALSE, TRUE>>
           /\ stored_by[a] = "add_foundry_agent_card" => Flags(a) = <<TRUE, FALSE>>
           /\ AGENT_CARDS[i][2].agent_id = a

\* an A2A id of the constructor was stored again as a foundry card, and a
\* request has run to its end on that registry
C21_Witness ==
    /\ stored_by["intranet_agent"] = "add_foundry_agent_card"
    /\ stored_by["work_env_agent"] = "add_a2a_agent_card"
    /\ \E r \in Requests : req[r].pc = "returned"

\* C22: while nothing has been registered after construction the registry
\* holds exactly intranet_agent and work_env_agent as A2A cards and
\* hello-world-agent as a foundry card; the A2A urls are
\* https://intranet-agent.<domain> and https://work-env-agent.<domain> for
\* the trimmed DEFAULT_DOMAIN when that is not empty, else
\* http://localhost:8081 and http://localhost:8080.
C22_ConstructedRegistry ==
    adds = 0 =>
        /\ KeyList(AGENT_CARDS) = <<"intranet_agent", "work_env_agent", "hello-world-agent">>
        /\ Flags("intranet_agent") = <<FALSE, TRUE>>
        /\ Flags("work_env_agent") = <<FALSE, TRUE>>
        /\ Flags("hello-world-agent") = <<TRUE, FALSE>>
        /\ LET domain == Strip(DEFAULT_DOMAIN)
           IN IF domain # <<>>
              THEN /\ Get(AGENT_CARDS, "intranet_agent").url
                        = <<"https://intranet-agent.">> \o domain
                   /\ Get(AGENT_CARDS, "work_env_agent").url
                        = <<"https://work-env-agent.">> \o domain
              ELSE /\ Get(AGENT_CARDS, "intranet_agent").url = <<"http://localhost:8081">>
                   /\ Get(AGENT_CARDS, "work_env_agent").url = <<"http://localhost:8080">>

\* constructed with a padded domain: the urls carry the trimmed value
C22_Witness ==
    /\ adds = 0
    /\ DEFAULT_DOMAIN = <<" ", "d", " ">>
    /\ Get(AGENT_CARDS, "intranet_agent").url = <<"https://intranet-agent.", "d">>
    /\ Get(AGENT_CARDS, "work_env_agent").url = <<"https://work-env-agent.", "d">>
====
